---- MODULE Spec2Model ----
(***************************************************************************)
(* Model of the strava-dashboard repository.                               *)
(*                                                                         *)
(*   src/src/fetch.py      the Fetcher script: token exchange, pagination, *)
(*                         filtering, unit conversion, table write         *)
(*   src/src/dashboard.py  the Aggregator/Presenter script: load_data,     *)
(*                         calculate_statistics, map layers, series, cards *)
(*                                                                         *)
(* The two scripts share only the persisted table (data/activities.csv).   *)
(* Real numbers are modelled as exact rationals extended with the IEEE     *)
(* values inf and nan that pandas' float division produces.                *)
(***************************************************************************)
EXTENDS Integers, Sequences, FiniteSets, TLC

VARIABLES
    fpc,            \* Fetcher position: auth, page, write, done, aborted
    page,           \* fetch.py `page`
    activities,     \* fetch.py `activities` (list of row dicts)
    requests,       \* history: every activities request with its response
    tokenRequests,  \* history: number of POSTs to the token endpoint
    access_token,   \* fetch.py `access_token`
    table,          \* data/activities.csv
    dpc,            \* Dashboard position: idle, stats, map, series, layout,
                    \*   serving, crashed
    df,             \* dashboard.py `activities` (the loaded DataFrame)
    stats,          \* dashboard.py `stats`
    layers,         \* result of create_map_layers(0)
    cumulative,     \* dashboard.py `cumulative`
    cards,          \* the activity cards of the layout
    now,            \* the date pd.Timestamp.now() gives at line 144
    z_cal,          \* dashboard.py `z_cal`
    text_cal,       \* dashboard.py `text_cal`
    ft_minutes,     \* the argument of a call of format_time
    ft_result       \* the string that call returns

vars == <<fpc, page, activities, requests, tokenRequests, access_token, table,
          dpc, df, stats, layers, cumulative, cards,
          now, z_cal, text_cal, ft_minutes, ft_result>>

fetcherVars == <<fpc, page, activities, requests, tokenRequests, access_token>>
dashboardVars == <<dpc, df, stats, layers, cumulative, cards>>
calendarVars == <<now, z_cal, text_cal>>
callVars == <<ft_minutes, ft_result>>

(***************************************************************************)
(* Bounds                                                                  *)
(***************************************************************************)
\* Upper bound on the number of items the upstream API holds in total.
MaxItems == 3

(***************************************************************************)
(* Numbers: rationals plus inf / nan                                       *)
(***************************************************************************)
Abs(x) == IF x < 0 THEN -x ELSE x

Min(a, b) == IF a <= b THEN a ELSE b

RECURSIVE GCD(_, _)
GCD(a, b) == IF b = 0 THEN a ELSE GCD(b, a % b)

\* The finite number n/d (d # 0), normalised.
Fin(n, d) ==
    LET g == GCD(Abs(n), Abs(d))
        s == IF d < 0 THEN -1 ELSE 1
    IN  [kind |-> "fin", n |-> (s * n) \div g, d |-> (s * d) \div g]

Inf == [kind |-> "inf"]
NaN == [kind |-> "nan"]
Zero == Fin(0, 1)
Int2F(k) == Fin(k, 1)

IsFin(x) == x.kind = "fin"

\* Sums and products cancel common factors first, so that intermediate
\* values stay small.
FAdd(a, b) ==
    LET l == (a.d \div GCD(a.d, b.d)) * b.d
    IN  Fin(a.n * (l \div a.d) + b.n * (l \div b.d), l)

FMul(a, b) ==
    LET g1 == GCD(Abs(a.n), b.d)
        g2 == GCD(Abs(b.n), a.d)
    IN  Fin((a.n \div g1) * (b.n \div g2), (a.d \div g2) * (b.d \div g1))

\* a < b, a <= b on finite numbers
FLt(a, b) == a.n * b.d < b.n * a.d
FLe(a, b) == a.n * b.d <= b.n * a.d

\* Float division as numpy/pandas perform it: x/0 is inf, 0/0 is nan, no
\* exception.  Only non-negative operands occur.
FDiv(a, b) ==
    IF b.n = 0
    THEN IF a.n = 0 THEN NaN ELSE Inf
    ELSE FMul(a, [kind |-> "fin", n |-> b.d, d |-> b.n])

\* floor of a finite number
Floor(a) == a.n \div a.d

RECURSIVE FSum(_)
FSum(s) == IF s = <<>> THEN Zero ELSE FAdd(Head(s), FSum(Tail(s)))

Col(rows, c) == [i \in 1..Len(rows) |-> rows[i][c]]

(***************************************************************************)
(* Upstream API                                                            *)
(***************************************************************************)
Absent == "absent"      \* a key the JSON object does not carry (dict.get -> None)

Date(y, m, d, mi) == [year |-> y, month |-> m, day |-> d, minute |-> mi]

Item(nm, st, ty, pl, dist, mt, dt) ==
    [name |-> nm, sport_type |-> st, type |-> ty, summary_polyline |-> pl,
     distance |-> dist, moving_time |-> mt, start_date_local |-> dt]

\* The activities the upstream API may return.  distance is in metres,
\* moving_time in seconds.  summary_polyline is "ok" for a well-formed
\* encoding, "bad" for a malformed one and "" for an empty one.
Catalogue ==
    { Item("a", "Run",  "Run",  "ok",   5000,  1500, Date(2024, 1, 10, 480)),
      Item("b", Absent, "Run",  "ok",  12000,  3000, Date(2024, 1, 31, 1430)),
      Item("c", "Run",  Absent, "ok",  15000,  5400, Date(2024, 3, 1, 10)),
      Item("d", "Run",  "Run",  "ok",      0,   600, Date(2024, 3, 1, 10)),
      Item("e", "Run",  "Run",  "ok",  42195, 12615, Date(2023, 12, 31, 600)),
      Item("f", "Run",  "Run",  "ok",   4999,  1499, Date(2024, 3, 1, 10)),
      Item("g", "Ride", "Ride", "ok",  30000,  3600, Date(2024, 2, 14, 600)),
      Item("h", "Run",  "Run",  "",     8000,  2400, Date(2024, 2, 15, 600)),
      Item("i", "Run",  "Run",  "bad",  7000,  2100, Date(2024, 2, 17, 600)) }

RECURSIVE SeqsUpTo(_, _)
SeqsUpTo(S, n) ==
    IF n = 0 THEN {<<>>}
    ELSE LET shorter == SeqsUpTo(S, n - 1)
         IN  shorter \cup {Append(s, x) : s \in {t \in shorter : Len(t) = n - 1}, x \in S}

\* fetch.py line 29: the fixed page size
PerPage == 200

NotAList == [kind |-> "object"]     \* e.g. an error object {"message": ...}
ListOf(items) == [kind |-> "list", items |-> items]

RECURSIVE ItemsReturned(_)
ItemsReturned(reqs) ==
    IF reqs = <<>> THEN 0
    ELSE (IF Head(reqs).response.kind = "list"
          THEN Len(Head(reqs).response.items) ELSE 0)
         + ItemsReturned(Tail(reqs))

\* What the activities endpoint may answer: a list of at most per_page
\* items (possibly empty) or something that is not a list.
Responses(reqs) ==
    {NotAList} \cup
    {ListOf(s) : s \in SeqsUpTo(Catalogue, Min(PerPage, MaxItems - ItemsReturned(reqs)))}

(***************************************************************************)
(* Fetcher (fetch.py)                                                      *)
(***************************************************************************)
\* lines 42-43: Python true division
distance_km_of(activity) == Fin(activity.distance, 1000)
moving_time_of(activity) == Fin(activity.moving_time, 60)

\* line 34
IsRun(activity) == activity.sport_type = "Run" \/ activity.type = "Run"

\* line 36: `if not polyline_data` (None and "" are both falsy)
HasPolyline(activity) == activity.summary_polyline \notin {Absent, ""}

\* line 38: polyline_lib.decode raises on a malformed encoding, otherwise it
\* returns the coordinate pairs.
DecodeRaises(polyline_data) == polyline_data = "bad"
decode(polyline_data) == <<<<60, 24>>, <<61, 25>>>>

\* lines 39-49
Row(activity) ==
    [name |-> activity.name,
     distance_km |-> distance_km_of(activity),
     moving_time |-> moving_time_of(activity),
     date |-> activity.start_date_local,
     coordinates |-> decode(activity.summary_polyline)]

\* lines 33-49: the per-activity loop over one page.  The result is the rows
\* appended and whether an exception left the loop.
RECURSIVE ProcessPage(_)
ProcessPage(dataset) ==
    IF dataset = <<>> THEN [rows |-> <<>>, raised |-> FALSE]
    ELSE LET activity == Head(dataset)
             rest == ProcessPage(Tail(dataset))
         IN  IF ~IsRun(activity) \/ ~HasPolyline(activity)
             THEN rest
             ELSE IF DecodeRaises(activity.summary_polyline)
                  THEN [rows |-> <<>>, raised |-> TRUE]
                  ELSE [rows |-> <<Row(activity)>> \o rest.rows,
                        raised |-> rest.raised]

\* line 31
EndOfPagination(dataset) == dataset.kind # "list" \/ dataset.items = <<>>

\* line 52: DataFrame(activities), as the text to_csv makes of it.  A
\* DataFrame built from an empty list has no columns, so no header is written.
RowColumns == <<"name", "distance_km", "moving_time", "date", "coordinates">>

DataFrameCsv(acts) ==
    [columns |-> IF acts = <<>> THEN <<>> ELSE RowColumns, rows |-> acts]

\* Variant of to_csv: the rows are appended to the existing file.
to_csv_Append(acts, old) ==
    [columns |-> old.columns, rows |-> old.rows \o acts]

\* line 53: to_csv opens the file for writing, which truncates the old file.
to_csv(acts, old) == DataFrameCsv(acts)

\* The table left by an earlier run of the Fetcher.
PriorTable ==
    DataFrameCsv(<<Row(Item("p", "Run", "Run", "ok", 10000, 3300, Date(2023, 11, 5, 540)))>>)

\* Variant of ExchangeRaises: a failed exchange goes unnoticed.
ExchangeRaises_Never(outcome) == FALSE

\* lines 21-24: one POST; raise_for_status raises on an error status and
\* ["access_token"] raises KeyError when the token is missing.
ExchangeRaises(outcome) == outcome \in {"error_status", "no_access_token"}

Unset == "unset"

\* line 23: the token of the response, if it carries one
TokenOf(outcome) == IF outcome = "ok" THEN "token" ELSE Unset

TokenExchange ==
    /\ fpc = "auth"
    /\ \E outcome \in {"ok", "error_status", "no_access_token"} :
          /\ tokenRequests' = tokenRequests + 1
          /\ access_token' = TokenOf(outcome)
          /\ fpc' = IF ExchangeRaises(outcome) THEN "aborted" ELSE "page"
    /\ UNCHANGED <<page, activities, requests, table, dashboardVars,
                   calendarVars, callVars>>

\* Variant of NextPage: the page counter is not advanced.
NextPage_Same(p) == p

\* line 50
NextPage(p) == p + 1

\* lines 28-50: one iteration of the `while True` loop
FetchPage ==
    /\ fpc = "page"
    /\ \E dataset \in Responses(requests) :
          /\ requests' = Append(requests,
                                [per_page |-> PerPage, page |-> page,
                                 response |-> dataset])
          /\ IF EndOfPagination(dataset)
             THEN /\ fpc' = "write"
                  /\ UNCHANGED <<page, activities>>
             ELSE LET r == ProcessPage(dataset.items)
                  IN  IF r.raised
                      THEN /\ fpc' = "aborted"
                           /\ UNCHANGED <<page, activities>>
                      ELSE /\ activities' = activities \o r.rows
                           /\ page' = NextPage(page)
                           /\ fpc' = "page"
    /\ UNCHANGED <<tokenRequests, access_token, table, dashboardVars,
                   calendarVars, callVars>>

\* lines 52-54
WriteTable ==
    /\ fpc = "write"
    /\ table' = to_csv(activities, table)
    /\ fpc' = "done"
    /\ UNCHANGED <<page, activities, requests, tokenRequests, access_token,
                   dashboardVars,
                   calendarVars, callVars>>

FetcherStopped == fpc \in {"done", "aborted"}

(***************************************************************************)
(* Dashboard (dashboard.py): pure helpers                                  *)
(***************************************************************************)
None == [kind |-> "none"]

\* Timestamps order by (year, month, day, minute).
DateLt(a, b) ==
    <<a.year, a.month, a.day, a.minute>> # <<b.year, b.month, b.day, b.minute>>
    /\ \/ a.year < b.year
       \/ a.year = b.year /\ a.month < b.month
       \/ a.year = b.year /\ a.month = b.month /\ a.day < b.day
       \/ a.year = b.year /\ a.month = b.month /\ a.day = b.day /\ a.minute < b.minute

DateLe(a, b) == ~DateLt(b, a)

\* Python round(): to the nearest integer, ties to even.
Round(x) ==
    LET f == Floor(x)
        r == x.n - f * x.d
    IN  IF 2 * r < x.d THEN f
        ELSE IF 2 * r > x.d THEN f + 1
        ELSE IF f % 2 = 0 THEN f ELSE f + 1

\* the format spec :02d
Pad2(k) == IF k < 10 THEN "0" \o ToString(k) ELSE ToString(k)

\* Variant of Qualifying: an exact-distance bucket instead of "at least".
Qualifying_Exact(d, min_dist) ==
    SelectSeq(d, LAMBDA row : row.distance_km = min_dist)

\* lines 25-29
Qualifying(d, min_dist) ==
    SelectSeq(d, LAMBDA row : FLe(min_dist, row.distance_km))

safe_pb(d, min_dist) ==
    LET filtered == Qualifying(d, min_dist)
    IN  IF filtered = <<>> THEN None
        ELSE LET i == CHOOSE i \in 1..Len(filtered) :
                          \A j \in 1..Len(filtered) :
                              FLe(filtered[i].moving_time, filtered[j].moving_time)
             IN  filtered[i].moving_time

\* Variant of format_time: the minutes are not reduced modulo the hour.
format_time_WholeMinutes(minutes) ==
    IF minutes = None THEN "N/A"
    ELSE LET total_seconds == Round(FMul(minutes, Int2F(60)))
             hours == total_seconds \div 3600
             mins == total_seconds \div 60
             secs == total_seconds % 60
         IN  IF hours > 0
             THEN ToString(hours) \o "h " \o ToString(mins) \o "m " \o Pad2(secs) \o "s"
             ELSE ToString(mins) \o "m " \o Pad2(secs) \o "s"

\* lines 32-41
format_time(minutes) ==
    IF minutes = None THEN "N/A"
    ELSE LET total_seconds == Round(FMul(minutes, Int2F(60)))
             hours == total_seconds \div 3600
             mins == (total_seconds % 3600) \div 60
             secs == total_seconds % 60
         IN  IF hours > 0
             THEN ToString(hours) \o "h " \o ToString(mins) \o "m " \o Pad2(secs) \o "s"
             ELSE ToString(mins) \o "m " \o Pad2(secs) \o "s"

\* lines 44-47: int() raises OverflowError on inf and ValueError on nan.
Raised == [raised |-> TRUE]

format_pace(pace_min) ==
    IF ~IsFin(pace_min) THEN Raised
    ELSE LET mins == Floor(pace_min)
             frac == FAdd(pace_min, Int2F(-mins))
             secs == Floor(FMul(frac, Int2F(60)))
         IN  [raised |-> FALSE,
              text |-> ToString(mins) \o ":" \o Pad2(secs) \o " /km"]

\* lines 75-80
STRAVA == "#FC4C02"

get_run_color(distance_km) ==
    IF FLt(distance_km, Int2F(5)) THEN "#60a5fa"
    ELSE IF FLt(distance_km, Int2F(15)) THEN STRAVA
    ELSE "#ef4444"

\* The four personal-best thresholds of lines 62-65, in km.
PB5 == Int2F(5)
PB10 == Int2F(10)
PBHalf == Fin(210975, 10000)
PBMarathon == Fin(42195, 1000)

MonthIndex(date) == date.year * 12 + (date.month - 1)

MonthNames ==
    <<"January", "February", "March", "April", "May", "June", "July",
      "August", "September", "October", "November", "December">>

\* strftime("%B %Y") of the bucket whose index is m
MonthLabel(m) == MonthNames[(m % 12) + 1] \o " " \o ToString(m \div 12)

\* line 55: resample("ME", on="date").size() -- one bucket per calendar month
\* from the month of the earliest activity to that of the latest, each with
\* the number of activities dated in it.
Resample(d) ==
    LET idx == {MonthIndex(d[i].date) : i \in 1..Len(d)}
        lo == CHOOSE m \in idx : \A k \in idx : m <= k
        hi == CHOOSE m \in idx : \A k \in idx : k <= m
    IN  [m \in lo..hi |-> Cardinality({i \in 1..Len(d) : MonthIndex(d[i].date) = m})]

\* Series.max()
SeriesMax(series) ==
    CHOOSE v \in {series[m] : m \in DOMAIN series} :
        \A m \in DOMAIN series : series[m] <= v

\* Variant of idxmax: the last occurrence of the maximum.
idxmax_Last(series) ==
    CHOOSE m \in DOMAIN series :
        /\ series[m] = SeriesMax(series)
        /\ \A k \in DOMAIN series : k > m => series[k] < series[m]

\* Series.idxmax(): the label of the first occurrence of the maximum
idxmax(series) ==
    CHOOSE m \in DOMAIN series :
        /\ series[m] = SeriesMax(series)
        /\ \A k \in DOMAIN series : k < m => series[k] < series[m]

\* Variant of average_pace_of: the division without its guard.
average_pace_of_Unguarded(moving_time_sum, total_distance_km) ==
    FDiv(moving_time_sum, total_distance_km)

\* lines 52-54
average_pace_of(moving_time_sum, total_distance_km) ==
    IF FLt(Zero, total_distance_km)
    THEN FDiv(moving_time_sum, total_distance_km)
    ELSE Zero

\* lines 50-69.  On an empty collection idxmax raises ValueError.
calculate_statistics(d) ==
    IF d = <<>> THEN Raised
    ELSE
    LET total_distance_km == FSum(Col(d, "distance_km"))
        monthly == Resample(d)
    IN  [raised |-> FALSE,
         total_distance_km |-> total_distance_km,
         total_runs |-> Len(d),
         pb_5km |-> format_time(safe_pb(d, PB5)),
         pb_10km |-> format_time(safe_pb(d, PB10)),
         pb_half_marathon |-> format_time(safe_pb(d, PBHalf)),
         pb_marathon |-> format_time(safe_pb(d, PBMarathon)),
         average_pace |-> average_pace_of(FSum(Col(d, "moving_time")), total_distance_km),
         month_with_most_activities |-> MonthLabel(idxmax(monthly)),
         most_activities_count |-> SeriesMax(monthly)]

(***************************************************************************)
(* Dashboard (dashboard.py): the module-level script                       *)
(***************************************************************************)
\* line 15: read_csv raises on a file without a header; line 16 needs the
\* "date" column.
ReadRaises(t) == \A i \in 1..Len(t.columns) : t.columns[i] # "date"

\* line 18: element-wise float division of two columns
pace_of(row) == FDiv(row.moving_time, row.distance_km)

\* lines 14-19
LoadedRow(row) ==
    [name |-> row.name,
     distance_km |-> row.distance_km,
     moving_time |-> row.moving_time,
     date |-> row.date,
     coordinates |-> row.coordinates,
     pace |-> pace_of(row)]

load_data(t) == [i \in 1..Len(t.rows) |-> LoadedRow(t.rows[i])]

\* lines 83-105: one layer per row at or above min_distance that has
\* coordinates; format_pace may raise inside the popup's f-string.
RECURSIVE create_map_layers(_, _)
create_map_layers(d, min_distance) ==
    IF d = <<>> THEN [raised |-> FALSE, layers |-> <<>>]
    ELSE LET row == Head(d)
             rest == create_map_layers(Tail(d), min_distance)
         IN  IF ~FLe(min_distance, row.distance_km) \/ row.coordinates = <<>>
             THEN rest
             ELSE IF format_pace(row.pace).raised
                  THEN [raised |-> TRUE, layers |-> <<>>]
                  ELSE [raised |-> rest.raised,
                        layers |->
                          <<[name |-> row.name,
                             distance_km |-> row.distance_km,
                             positions |-> row.coordinates,
                             color |-> get_run_color(row.distance_km),
                             time |-> format_time(row.moving_time),
                             pace |-> format_pace(row.pace).text]>> \o rest.layers]

Perms(n) == {f \in [1..n -> 1..n] : \A i, j \in 1..n : i # j => f[i] # f[j]}

\* Variant of SortedByDate: the rows left in table order.
SortedByDate_Unsorted(d) == {d}

\* The orders sort_values("date") may produce: every permutation of the rows
\* that is ascending by date (the default sort is not stable, so rows with
\* equal dates come in either order).
SortedByDate(d) ==
    {[i \in 1..Len(d) |-> d[f[i]]] :
        f \in {g \in Perms(Len(d)) :
                  \A i \in 1..(Len(d) - 1) : DateLe(d[g[i]].date, d[g[i + 1]].date)}}

RECURSIVE cumsum(_)
cumsum(s) ==
    IF s = <<>> THEN <<>>
    ELSE LET front == cumsum(SubSeq(s, 1, Len(s) - 1))
         IN  Append(front,
                    IF front = <<>> THEN s[Len(s)]
                    ELSE FAdd(front[Len(front)], s[Len(s)]))

\* lines 131-132
Cumulative(sorted) ==
    LET sums == cumsum(Col(sorted, "distance_km"))
    IN  [i \in 1..Len(sorted) |->
            [name |-> sorted[i].name,
             date |-> sorted[i].date,
             distance_km |-> sorted[i].distance_km,
             cumulative_km |-> sums[i]]]

Reverse(s) == [i \in 1..Len(s) |-> s[Len(s) + 1 - i]]

\* line 173: sort_values("date", ascending=False).head(6)
RecentCount == 6
Recent(sorted) == SubSeq(Reverse(sorted), 1, Min(RecentCount, Len(sorted)))

\* lines 201-270, 523: one card per recent row
RECURSIVE activity_cards(_)
activity_cards(rows) ==
    IF rows = <<>> THEN [raised |-> FALSE, cards |-> <<>>]
    ELSE LET row == Head(rows)
             rest == activity_cards(Tail(rows))
         IN  IF format_pace(row.pace).raised
             THEN [raised |-> TRUE, cards |-> <<>>]
             ELSE [raised |-> rest.raised,
                   cards |-> <<[name |-> row.name,
                                time |-> format_time(row.moving_time),
                                pace |-> format_pace(row.pace).text]>> \o rest.cards]

\* line 22: activities = load_data()
LoadData ==
    /\ dpc = "idle"
    /\ FetcherStopped
    /\ IF ReadRaises(table)
       THEN dpc' = "crashed" /\ UNCHANGED df
       ELSE dpc' = "stats" /\ df' = load_data(table)
    /\ UNCHANGED <<fetcherVars, table, stats, layers, cumulative, cards,
                   calendarVars, callVars>>

\* line 72: stats = calculate_statistics(activities)
CalculateStatistics ==
    /\ dpc = "stats"
    /\ LET r == calculate_statistics(df)
       IN  IF r.raised
           THEN dpc' = "crashed" /\ UNCHANGED stats
           ELSE dpc' = "map" /\ stats' = r
    /\ UNCHANGED <<fetcherVars, table, df, layers, cumulative, cards,
                   calendarVars, callVars>>

\* lines 118-126: the map with create_map_layers(0)
CreateMap ==
    /\ dpc = "map"
    /\ LET r == create_map_layers(df, Zero)
       IN  IF r.raised
           THEN dpc' = "crashed" /\ UNCHANGED layers
           ELSE dpc' = "series" /\ layers' = r.layers
    /\ UNCHANGED <<fetcherVars, table, df, stats, cumulative, cards,
                   calendarVars, callVars>>

\* lines 131-134: the cumulative series
BuildSeries ==
    /\ dpc = "series"
    /\ \E sorted \in SortedByDate(df) : cumulative' = Cumulative(sorted)
    /\ dpc' = "layout"
    /\ UNCHANGED <<fetcherVars, table, df, stats, layers, cards,
                   calendarVars, callVars>>

\* lines 173, 277-531: avg_pace_str and the layout with the activity cards
BuildLayout ==
    /\ dpc = "layout"
    /\ \E sorted \in SortedByDate(df) :
          LET r == activity_cards(Recent(sorted))
          IN  IF format_pace(stats.average_pace).raised \/ r.raised
              THEN dpc' = "crashed" /\ UNCHANGED cards
              ELSE dpc' = "serving" /\ cards' = r.cards
    /\ UNCHANGED <<fetcherVars, table, df, stats, layers, cumulative,
                   calendarVars, callVars>>

(***************************************************************************)
(* Specification                                                           *)
(***************************************************************************)
NotYet == [kind |-> "not computed"]

FetcherInit ==
    /\ fpc = "auth"
    /\ page = 1
    /\ activities = <<>>
    /\ requests = <<>>
    /\ tokenRequests = 0
    /\ access_token = Unset
    /\ table = PriorTable

DashboardInit ==
    /\ dpc = "idle"
    /\ df = <<>>
    /\ stats = NotYet
    /\ layers = <<>>
    /\ cumulative = <<>>
    /\ cards = <<>>

CalendarIdle ==
    /\ now = NotYet
    /\ z_cal = <<>>
    /\ text_cal = <<>>

\* no string yet
Pending == "pending"

CallIdle ==
    /\ ft_minutes = NotYet
    /\ ft_result = Pending

Init ==
    /\ FetcherInit
    /\ DashboardInit
    /\ CalendarIdle
    /\ CallIdle

Next ==
    \/ TokenExchange
    \/ FetchPage
    \/ WriteTable
    \/ LoadData
    \/ CalculateStatistics
    \/ CreateMap
    \/ BuildSeries
    \/ BuildLayout

Spec == Init /\ [][Next]_vars

(***************************************************************************)
(* The calendar grid (dashboard.py lines 136-162)                          *)
(*                                                                         *)
(* The grid is read by no later step of the script, so it is built in a    *)
(* specification of its own, which starts where the script has just built  *)
(* the cumulative series (line 134) after a Fetcher run of one page.       *)
(***************************************************************************)
\* The number of days from 1970-01-01 to the given civil date.
DaysFromCivil(year, month, day) ==
    LET y == IF month <= 2 THEN year - 1 ELSE year
        era == y \div 400
        yoe == y - era * 400
        mp == IF month > 2 THEN month - 3 ELSE month + 9
        doy == (153 * mp + 2) \div 5 + day - 1
        doe == yoe * 365 + yoe \div 4 - yoe \div 100 + doy
    IN  era * 146097 + doe - 719468

\* line 137: dt.normalize() drops the time of day
normalize(date) == DaysFromCivil(date.year, date.month, date.day)

\* Timestamp.dayofweek: Monday is 0 (1970-01-01 was a Thursday)
dayofweek(day) == (day + 3) % 7

\* line 138: groupby("day")["distance_km"].sum()
daily_dist_of(d) ==
    LET days == {normalize(d[i].date) : i \in 1..Len(d)}
    IN  [day \in days |->
            FSum(Col(SelectSeq(d, LAMBDA row : normalize(row.date) = day),
                     "distance_km"))]

\* line 142: daily_dist.index.min()
first_day_of(daily_dist) ==
    CHOOSE day \in DOMAIN daily_dist : \A other \in DOMAIN daily_dist : day <= other

\* Variant of cal_start_of: the grid starts on the first day itself.
cal_start_of_Unaligned(first_day) == first_day

\* line 143
cal_start_of(first_day) == first_day - dayofweek(first_day)

\* lines 144-145
cal_end_of(today) == normalize(today) + (6 - dayofweek(normalize(today)))

\* line 146: pd.date_range(start, end, freq="7D")
date_range(start, end, step) ==
    IF end < start THEN <<>>
    ELSE [k \in 1..((end - start) \div step + 1) |-> start + step * (k - 1)]

\* line 154: daily_dist.get(d, 0)
get(daily_dist, day) ==
    IF day \in DOMAIN daily_dist THEN daily_dist[day] ELSE Zero

\* lines 149-162: z_cal and text_cal, one row per weekday and one column per
\* week.  A text cell is kept as the day it names and the distance it shows.
calendar_grid(d, today) ==
    LET daily_dist == daily_dist_of(d)
        cal_start == cal_start_of(first_day_of(daily_dist))
        weeks == date_range(cal_start, cal_end_of(today), 7)
        cell(dow, w) == get(daily_dist, weeks[w] + dow)
    IN  [z |-> [r \in 1..7 |-> [w \in 1..Len(weeks) |->
                  IF FLt(Zero, cell(r - 1, w)) THEN cell(r - 1, w) ELSE None]],
         text |-> [r \in 1..7 |-> [w \in 1..Len(weeks) |->
                  [day |-> weeks[w] + (r - 1),
                   km |-> IF FLt(Zero, cell(r - 1, w)) THEN cell(r - 1, w) ELSE None]]]]

\* Upper bound on the number of items of the page the Fetcher run returned.
MaxCalItems == 3

\* The dates the dashboard may be started on: in the week of the latest
\* activity, on the Monday and the Sunday of the week after, in a week that
\* precedes some activities, and in a week that precedes them all.
Nows ==
    { Date(2024, 3, 1, 720), Date(2024, 3, 4, 0), Date(2024, 3, 10, 1439),
      Date(2024, 1, 31, 600), Date(2023, 12, 24, 600) }

\* The state of both scripts when dashboard.py reaches line 136, the Fetcher
\* having completed a run whose first page held `items`.
CalendarInit ==
    \E items \in SeqsUpTo(Catalogue, MaxCalItems) :
        LET r == ProcessPage(items)
            d == load_data(DataFrameCsv(r.rows))
            lay == create_map_layers(d, Zero)
        IN  /\ ~r.raised
            /\ r.rows # <<>>
            /\ ~lay.raised
            /\ fpc = "done"
            /\ page = NextPage(1)
            /\ activities = r.rows
            /\ requests = <<[per_page |-> PerPage, page |-> 1, response |-> ListOf(items)],
                            [per_page |-> PerPage, page |-> 2, response |-> ListOf(<<>>)]>>
            /\ tokenRequests = 1
            /\ access_token = TokenOf("ok")
            /\ table = to_csv(r.rows, PriorTable)
            /\ dpc = "layout"
            /\ df = d
            /\ stats = calculate_statistics(d)
            /\ layers = lay.layers
            /\ \E sorted \in SortedByDate(d) : cumulative = Cumulative(sorted)
            /\ cards = <<>>
            /\ CalendarIdle
            /\ CallIdle

\* lines 136-162
BuildCalendar ==
    /\ dpc = "layout"
    /\ now = NotYet
    /\ \E today \in Nows :
          LET g == calendar_grid(df, today)
          IN  /\ now' = today
              /\ z_cal' = g.z
              /\ text_cal' = g.text
    /\ UNCHANGED <<fetcherVars, table, dashboardVars, callVars>>

CalendarNext == BuildCalendar

CalendarSpec == CalendarInit /\ [][CalendarNext]_vars

(***************************************************************************)
(* format_time on its own: one call with an arbitrary duration             *)
(***************************************************************************)
\* Durations go up to MaxHours hours plus MaxEighths eighths of a minute.
MaxHours == 2
MaxEighths == 40

\* Non-negative durations in minutes: a grid of eighths of a minute (7.5 s
\* apart, so that half seconds occur) after every whole hour, and the
\* durations just below a full minute and a full hour.
Durations ==
    {FAdd(Int2F(60 * h), Fin(k, 8)) : h \in 0..MaxHours, k \in 0..MaxEighths}
    \cup {Fin(119, 120), Fin(3599, 60), Fin(7199, 120), Int2F(90)}

FormatInit ==
    /\ FetcherInit
    /\ DashboardInit
    /\ CalendarIdle
    /\ ft_minutes \in Durations
    /\ ft_result = Pending

\* a call format_time(ft_minutes), as at lines 99 and 232
FormatTime ==
    /\ ft_minutes # NotYet
    /\ ft_result = Pending
    /\ ft_result' = format_time(ft_minutes)
    /\ UNCHANGED <<fetcherVars, table, dashboardVars, calendarVars, ft_minutes>>

FormatNext == FormatTime

FormatSpec == FormatInit /\ [][FormatNext]_vars

(***************************************************************************)
(* Claims                                                                  *)
(***************************************************************************)
StatsComputed == stats # NotYet

Thresholds == <<PB5, PB10, PBHalf, PBMarathon>>

PBFields(st) == <<st.pb_5km, st.pb_10km, st.pb_half_marathon, st.pb_marathon>>

\* The indices of the activities of d that are at least T km long
AtLeast(d, T) == {i \in 1..Len(d) : ~FLt(d[i].distance_km, T)}

\* C1: for each of the four thresholds T the personal best safe_pb(df, T) is
\* the least moving_time among the activities with distance_km >= T, it is
\* None exactly when there is no such activity, and calculate_statistics
\* renders it as "N/A" exactly in that case.
C1_PersonalBest ==
    StatsComputed =>
        \A t \in 1..4 :
            LET T == Thresholds[t]
                Q == AtLeast(df, T)
                pb == safe_pb(df, T)
            IN  /\ (pb = None) <=> (Q = {})
                /\ (PBFields(stats)[t] = "N/A") <=> (Q = {})
                /\ Q # {} =>
                      /\ \E i \in Q : pb = df[i].moving_time
                      /\ \A j \in Q : FLe(pb, df[j].moving_time)
                      /\ PBFields(stats)[t] = format_time(pb)

\* C1 witness: statistics computed where the marathon best is unavailable
\* while two activities of different moving time qualify for the 5 km best,
\* one of them longer than 10 km.
C1_Witness ==
    /\ StatsComputed
    /\ stats.pb_marathon = "N/A"
    /\ stats.pb_10km # "N/A"
    /\ \E i, j \in AtLeast(df, PB5) :
          /\ df[i].moving_time # df[j].moving_time
          /\ FLt(PB10, df[j].distance_km)

\* C2: average_pace is 0 when the total distance is 0 and otherwise the
\* quotient sum(moving_time) / sum(distance_km); it is always a finite number
\* (no division by zero).
C2_AveragePace ==
    StatsComputed =>
        LET total == FSum(Col(df, "distance_km"))
            time == FSum(Col(df, "moving_time"))
        IN  /\ IsFin(stats.average_pace)
            /\ total = Zero => stats.average_pace = Zero
            /\ total # Zero => FMul(stats.average_pace, total) = time

\* C2 witness: statistics computed over a non-empty collection of total
\* distance 0.
C2_Witness ==
    /\ StatsComputed
    /\ df # <<>>
    /\ FSum(Col(df, "distance_km")) = Zero
    /\ FSum(Col(df, "moving_time")) # Zero

\* The items of every list response received so far, in upstream order
RECURSIVE Fetched(_)
Fetched(reqs) ==
    IF reqs = <<>> THEN <<>>
    ELSE (IF Head(reqs).response.kind = "list"
          THEN Head(reqs).response.items ELSE <<>>)
         \o Fetched(Tail(reqs))

IsEndPage(response) == response = NotAList \/ response = ListOf(<<>>)

\* C3: pages are requested in increasing order 1, 2, 3, ... with the fixed
\* page size; the first empty or non-list response is the last request ever
\* made, and with it the pagination loop is left for the table write.
C3_Pagination ==
    /\ \A i \in 1..Len(requests) :
          /\ requests[i].page = i
          /\ requests[i].per_page = PerPage
          /\ i < Len(requests) => ~IsEndPage(requests[i].response)
    /\ (requests # <<>> /\ IsEndPage(requests[Len(requests)].response))
          => fpc \in {"write", "done"}
    /\ fpc = "page" => page = Len(requests) + 1
    /\ fpc \in {"write", "done"}
          => (requests # <<>> /\ IsEndPage(requests[Len(requests)].response))

\* C3 witness: a completed run of three requests, the third answered by an
\* end page.
C3_Witness ==
    /\ fpc = "done"
    /\ Len(requests) = 3
    /\ IsEndPage(requests[3].response)

Malformed(item) ==
    /\ item.sport_type = "Run" \/ item.type = "Run"
    /\ item.summary_polyline = "bad"

\* C4: an activity whose route geometry fails to decode is skipped and the
\* batch continues, so fetching such an activity never aborts the run.
C4_SkipMalformed ==
    (\E i \in 1..Len(Fetched(requests)) : Malformed(Fetched(requests)[i]))
        => fpc # "aborted"

\* C5: a failed token exchange aborts the run after that single request,
\* with no activities request made and the table left as it was.
C5_AuthFailure ==
    (tokenRequests > 0 /\ access_token = Unset) =>
        /\ fpc = "aborted"
        /\ tokenRequests = 1
        /\ requests = <<>>
        /\ table = PriorTable

\* C5 witness: the token exchange has failed and the dashboard has since
\* loaded the table.
C5_Witness ==
    /\ tokenRequests = 1
    /\ access_token = Unset
    /\ dpc = "stats"

Wanted(item) ==
    /\ item.sport_type = "Run" \/ item.type = "Run"
    /\ item.summary_polyline # Absent
    /\ item.summary_polyline # ""

\* C6: after a completed run the table holds, in upstream order, exactly one
\* row per fetched item that is a run with a non-empty route geometry, with
\* metres turned into km and seconds into minutes, and nothing else.
C6_TableContent ==
    fpc = "done" =>
        LET want == SelectSeq(Fetched(requests), Wanted)
        IN  /\ Len(table.rows) = Len(want)
            /\ \A i \in 1..Len(want) :
                  /\ table.rows[i].name = want[i].name
                  /\ table.rows[i].date = want[i].start_date_local
                  /\ FMul(table.rows[i].distance_km, Int2F(1000)) = Int2F(want[i].distance)
                  /\ FMul(table.rows[i].moving_time, Int2F(60)) = Int2F(want[i].moving_time)

\* C6 witness: a completed run that fetched a run known only by `type`, a
\* run known only by `sport_type` and an item that is filtered out.
C6_Witness ==
    /\ fpc = "done"
    /\ Len(table.rows) = 2
    /\ Len(Fetched(requests)) = 3
    /\ \E i \in 1..3 : Fetched(requests)[i].sport_type = Absent
    /\ \E i \in 1..3 : Fetched(requests)[i].type = Absent

SeriesBuilt == cumulative # <<>>

\* C7: the cumulative series has one point per activity, ascending by date,
\* each value the running sum of distance up to that point; it never
\* decreases and ends at the total distance of the statistics.
C7_Cumulative ==
    SeriesBuilt =>
        LET n == Len(cumulative)
        IN  /\ n = Len(df)
            /\ \E f \in Perms(n) :
                  \A i \in 1..n :
                      /\ cumulative[i].name = df[f[i]].name
                      /\ cumulative[i].date = df[f[i]].date
                      /\ cumulative[i].distance_km = df[f[i]].distance_km
            /\ \A i \in 1..(n - 1) :
                  /\ ~DateLt(cumulative[i + 1].date, cumulative[i].date)
                  /\ FLe(cumulative[i].cumulative_km, cumulative[i + 1].cumulative_km)
            /\ \A i \in 1..n :
                  cumulative[i].cumulative_km
                      = FSum([k \in 1..i |-> cumulative[k].distance_km])
            /\ cumulative[n].cumulative_km = stats.total_distance_km

\* C7 witness: a series over three activities that were not in date order in
\* the table.
C7_Witness ==
    /\ SeriesBuilt
    /\ Len(df) = 3
    /\ DateLt(df[3].date, df[1].date)
    /\ DateLt(df[2].date, df[3].date)

MonthCount(d, m) == Cardinality({i \in 1..Len(d) : MonthIndex(d[i].date) = m})

Months(d) == {MonthIndex(d[i].date) : i \in 1..Len(d)}

\* C8: most_activities_count is the largest number of activities in any
\* calendar month, and the month reported is the earliest month with that
\* many (buckets are iterated in calendar order).
C8_BusiestMonth ==
    StatsComputed =>
        \E m \in Months(df) :
            /\ \A k \in Months(df) : MonthCount(df, k) <= MonthCount(df, m)
            /\ \A k \in Months(df) : MonthCount(df, k) = MonthCount(df, m) => m <= k
            /\ stats.most_activities_count = MonthCount(df, m)
            /\ stats.month_with_most_activities = MonthLabel(m)

\* C8 witness: two months share the largest count and the earlier of them is
\* the one reported.
C8_Witness ==
    /\ StatsComputed
    /\ \E m1, m2 \in Months(df) :
          /\ m1 < m2
          /\ MonthCount(df, m1) = stats.most_activities_count
          /\ MonthCount(df, m2) = stats.most_activities_count
          /\ stats.month_with_most_activities = MonthLabel(m1)

BandA == "#60a5fa"
BandB == STRAVA
BandC == "#ef4444"

\* C9: every route is coloured band A when shorter than 5 km, band B from 5
\* to 15 km inclusive, and band C when longer than 15 km.
C9_ColorBands ==
    \A i \in 1..Len(layers) :
        LET dist == layers[i].distance_km
        IN  layers[i].color =
                IF FLt(dist, Int2F(5)) THEN BandA
                ELSE IF FLe(dist, Int2F(15)) THEN BandB
                ELSE BandC

\* C10: with an activity of distance 0 loaded, the dashboard does not raise.
C10_ZeroDistancePace ==
    (\E i \in 1..Len(df) : df[i].distance_km = Zero) => dpc # "crashed"

\* The seconds nearest to 60 * x, a tie going to the even one
NearestSeconds(x) ==
    LET f == (60 * x.n) \div x.d
    IN  CHOOSE t \in {f, f + 1} :
            /\ 2 * Abs(t * x.d - 60 * x.n) <= x.d
            /\ 2 * Abs(t * x.d - 60 * x.n) = x.d => t % 2 = 0

TwoDigits(k) == ToString(k \div 10) \o ToString(k % 10)

\* C11: format_time renders round(minutes * 60) seconds as "Xh Ym ZZs" from
\* one hour on and as "Ym ZZs" below, with X*3600 + Y*60 + Z the rounded
\* seconds, Y below 60 when the hours are shown and Z below 60 in two
\* digits; format_time(0) is "0m 00s" and format_time(90) is "1h 30m 00s".
C11_FormatTime ==
    ft_result # Pending =>
        LET total == NearestSeconds(ft_minutes)
        IN  /\ \E X \in 0..(MaxHours + 1), Y \in 0..59 :
                  LET Z == total - X * 3600 - Y * 60
                  IN  /\ Z \in 0..59
                      /\ total >= 3600 =>
                            /\ X >= 1
                            /\ ft_result = ToString(X) \o "h " \o ToString(Y)
                                              \o "m " \o TwoDigits(Z) \o "s"
                      /\ total < 3600 =>
                            /\ X = 0
                            /\ ft_result = ToString(Y) \o "m " \o TwoDigits(Z) \o "s"
            /\ ft_minutes = Zero => ft_result = "0m 00s"
            /\ ft_minutes = Int2F(90) => ft_result = "1h 30m 00s"

\* C11 witness: 60.125 minutes are 3607.5 seconds, rendered with the hours
\* part, rounded to the even second and padded.
C11_Witness ==
    /\ ft_minutes = Fin(481, 8)
    /\ ft_result = "1h 0m 08s"

CalendarBuilt == now # NotYet

\* The activities of d dated on the given day
OnDay(d, day) == {i \in 1..Len(d) : normalize(d[i].date) = day}

\* The distance run on the given day
DayDistance(d, day) ==
    FSum(Col(SelectSeq(d, LAMBDA row : normalize(row.date) = day), "distance_km"))

\* The Monday of the week of the earliest activity and the Sunday of the
\* week of the current date
FirstMonday ==
    LET first == CHOOSE x \in {normalize(df[i].date) : i \in 1..Len(df)} :
                     \A i \in 1..Len(df) : x <= normalize(df[i].date)
    IN  CHOOSE m \in (first - 6)..first : dayofweek(m) = 0

LastSunday ==
    CHOOSE e \in normalize(now)..(normalize(now) + 6) : dayofweek(e) = 6

Cells == {<<r, w>> : r \in 1..7, w \in 1..Len(z_cal[1])}

\* The value a cell adds to the grid's total
CellValue(r, w) == IF z_cal[r][w] = None THEN Zero ELSE z_cal[r][w]

\* C12: the grid has 7 rows, Monday to Sunday, and one column per week from
\* the week of the earliest activity to the week of the current date; each
\* cell stands for one calendar day of its own and holds the distance run on
\* that day, or no value when that is zero; every activity dated no later
\* than the current week is in exactly one cell, and the cell values add up
\* to the distance of those activities.
C12_CalendarGrid ==
    CalendarBuilt =>
        LET W == IF LastSunday < FirstMonday THEN 0
                 ELSE (LastSunday - FirstMonday + 1) \div 7
            inGrid == {i \in 1..Len(df) : normalize(df[i].date) <= LastSunday}
        IN  /\ Len(z_cal) = 7 /\ Len(text_cal) = 7
            /\ \A r \in 1..7 : Len(z_cal[r]) = W /\ Len(text_cal[r]) = W
            /\ \A c \in Cells :
                  LET day == text_cal[c[1]][c[2]].day
                  IN  /\ dayofweek(day) = c[1] - 1
                      /\ day = FirstMonday + 7 * (c[2] - 1) + (c[1] - 1)
                      /\ z_cal[c[1]][c[2]] =
                            IF DayDistance(df, day) = Zero THEN None
                            ELSE DayDistance(df, day)
                      /\ text_cal[c[1]][c[2]].km = z_cal[c[1]][c[2]]
            /\ \A c1, c2 \in Cells :
                  text_cal[c1[1]][c1[2]].day = text_cal[c2[1]][c2[2]].day => c1 = c2
            /\ \A i \in inGrid :
                  Cardinality({c \in Cells :
                      text_cal[c[1]][c[2]].day = normalize(df[i].date)}) = 1
            /\ FSum([r \in 1..7 |-> FSum([w \in 1..W |-> CellValue(r, w)])])
                  = FSum([k \in 1..Len(df) |->
                             IF k \in inGrid THEN df[k].distance_km ELSE Zero])

\* C12 witness: a grid of several weeks in which one cell holds the distance
\* of two activities of the same day, while a third activity is dated after
\* the current week.
C12_Witness ==
    /\ CalendarBuilt
    /\ Len(z_cal[1]) >= 2
    /\ \E c \in Cells :
          /\ z_cal[c[1]][c[2]] # None
          /\ Cardinality(OnDay(df, text_cal[c[1]][c[2]].day)) = 2
    /\ \E i \in 1..Len(df) : normalize(df[i].date) > LastSunday

====
